---- MODULE Spec2Model ----
(***************************************************************************)
(* State-machine model of the CR95HF RFID driver (rfid_cr95hf.c):          *)
(* the SPI frame transport, the readiness wait (polling or IRQ_OUT), the   *)
(* response reader, the mode state machine, the ISO-14443A anticollision   *)
(* (get_uid) and the initialization sequence.                              *)
(*                                                                         *)
(* The calling thread advances one bus transaction (or one blocking point) *)
(* per step; pc names the statement it is about to execute.  Time is kept  *)
(* in microseconds; k_uptime_get() is now \div 1000.                       *)
(***************************************************************************)
EXTENDS Integers, Sequences, FiniteSets, TLC

(* ------------------------------ rfid_mode_t ---------------------------- *)
UNINITIALIZED == 0
POWER_UP == 1
READY == 2
HIBERNATE == 3
SLEEP == 4
TAG_DETECTOR == 5
READER == 6
INVALID == 7

\* rfid_protocol_t
FIELD_OFF == 0
ISO_15693 == 1
ISO_14443A == 2
ISO_14443B == 3
ISO_18092 == 4

(* ------------------------------ error codes ---------------------------- *)
EINVAL == 22
EIO == 5
EBUSY == 16
EPERM == 1

(* ------------------------------ model bounds --------------------------- *)
\* API calls made after initialization in one behaviour
MaxCalls == 2
\* idle periods of the caller between calls in one behaviour
MaxTicks == 1
\* status reads of the polling loop that may come back "not ready" in one wait
MaxPolls == 1
\* largest out-of-range mode value the caller passes beyond INVALID
MaxModeArg == 8
\* uid buffer lengths the caller passes are 9, 10 and BigUidLen
BigUidLen == 16
\* bus primitives that may fail during one call
MaxFaults == 1
\* get_uid calls made after initialization in one behaviour
MaxUidCalls == 1
\* largest protocol value the caller passes (one beyond rfid_protocol_t)
MaxProtoArg == 5
\* largest tx length the caller passes to transceive
MaxTxLen == 2
\* calibration calls made after initialization in one behaviour
MaxCalCalls == 1
\* largest send length and largest receive length of a direct Frame
\* Transport call
MaxSndLen == 2
MaxRcvLen == 2

(* ------------------------------ buffers -------------------------------- *)
\* capacities of rcv_buffer and snd_buffer (rfid_cr95hf.h)
CR95HF_RCV_BUF_SIZE == 8
CR95HF_SND_BUF_SIZE == 17

\* tag_detector_msg[i] and protocol_msg[i]: the bytes are fixed at build time
\* by the CR95HF_CREATE_*_ARRAY macros; the model keeps them symbolic
\* (values outside 0..255 so that they cannot be confused with other bytes).
tag_detector_msg == [i \in 0..16 |-> 256 + i]
protocol_msg == [i \in 0..12 |-> 512 + i]

VARIABLES
    cfg_irq_out,   \* config->irq_out # NULL: IRQ_OUT line wired (signal strategy)
    current_mode,  \* data->current_mode
    cm_timestamp,  \* data->cm_timestamp (ms)
    now,           \* time since boot (us)
    snd_buffer,    \* data->snd_buffer
    rcv_buffer,    \* data->rcv_buffer
    snd_len,       \* data->spi_snd_buffer.len
    rcv_len,       \* data->spi_rcv_buffer.len
    cs,            \* chip select asserted
    irq_out,       \* logical level of IRQ_OUT (TRUE: active)
    int_armed,     \* edge interrupt on IRQ_OUT enabled
    sem,           \* data->irq_out_sem count
    pending,       \* response the chip is delivering (header read, data not yet)
    pc,            \* position of the calling thread
    op,            \* operation in progress / last operation
    stage,         \* get_uid: index of the command exchange
    req,           \* argument of the call (mode, or uid buffer length)
    ret,           \* return value of the last finished call
    tries,         \* init: remaining echo attempts
    polls,         \* polling loop: "not ready" reads so far in this wait
    uid,           \* caller's uid buffer (-1: not written by this call)
    uid_len,       \* caller's *uid_len
    trace,         \* events of the current call, in order (the status reads
                   \* of the polling loop are not recorded)
    cmds,          \* command frames sent in the current call
    rsp,           \* rcv_buffer[0..4] after each response read in the current call
    calls,         \* API calls made so far
    ticks,         \* idle periods so far
    faults,        \* bus primitives that failed in the current call
    fresh          \* a length was written since the last Frame Transport call

vars == <<cfg_irq_out, current_mode, cm_timestamp, now, snd_buffer, rcv_buffer,
          snd_len, rcv_len, cs, irq_out, int_armed, sem, pending, pc, op, stage,
          req, ret, tries, polls, uid, uid_len, trace, cmds, rsp, calls, ticks,
          faults, fresh>>

devvars == <<current_mode, cm_timestamp>>
bufvars == <<snd_buffer, rcv_buffer, snd_len, rcv_len>>
linevars == <<irq_out, int_armed, sem>>
uidvars == <<uid, uid_len>>

(* ------------------------------ helpers -------------------------------- *)
Min(a, b) == IF a < b THEN a ELSE b

\* bit test with a one-bit mask
Bit(b, mask) == (b \div mask) % 2 = 1

\* buf with its first Len(s) bytes overwritten by s
Put(buf, s) == [i \in DOMAIN buf |-> IF i < Len(s) THEN s[i + 1] ELSE buf[i]]

\* the first n bytes of buf as a sequence
Prefix(buf, n) == [i \in 1..n |-> buf[i - 1]]

Ev(e, a, b, c) == [e |-> e, a |-> a, b |-> b, c |-> c]

IsSpi(ev) == ev.e \in {"init", "cmd", "poll", "resp"}

\* k_uptime_get()
Uptime(t) == t \div 1000

\* the no-uid-written marker of the caller's buffer
BlankUid == [i \in 0..9 |-> -1]

(* --------------------------- the chip (environment) -------------------- *)
\* outcomes of a bus primitive: 0 or a negative errno of the SPI driver
BusResults == {0, -EBUSY}

\* the outcomes left to the bus within the failures allowed to one call
BusOutcomes == IF faults < MaxFaults THEN BusResults ELSE {0}

\* the failure count after a Frame Transport call that returned err
Counted(err) == IF err # 0 THEN faults + 1 ELSE faults

\* responses the chip may deliver: result code, declared length, payload
ChipResponses ==
    { [code |-> 128, len |-> 5, data |-> <<136, 17, 34, 51, 68>>],
      [code |-> 128, len |-> 5, data |-> <<170, 187, 204, 221, 238>>],
      [code |-> 128, len |-> 5, data |-> <<4, 85, 102, 119, 153>>] }

NoResponse == [code |-> 0, len |-> 0, data |-> <<>>]

\* responses the chip may deliver to a calibration probe: the two outcomes
\* the calibration tells apart, and the one-byte answer 00 01 02 of the chip
\* to an Idle command (code 0, length 1, data 02)
CalResponses ==
    { [code |-> 0, len |-> 3, data |-> <<0, 1, 1>>],
      [code |-> 0, len |-> 3, data |-> <<0, 1, 2>>],
      [code |-> 0, len |-> 1, data |-> <<2>>] }

\* answers to ProtocolSelect: the chip's (code 0, no data), and answers whose
\* declared length is the capacity of rcv_buffer, one more, and the largest
\* a length byte can declare
ProtoResponses ==
    { [code |-> 0, len |-> 0, data |-> <<>>],
      [code |-> 130, len |-> 8, data |-> [i \in 1..8 |-> 100 + i]],
      [code |-> 130, len |-> 9, data |-> [i \in 1..9 |-> 150 + i]],
      [code |-> 130, len |-> 255, data |-> [i \in 1..255 |-> 255 - (i % 16)]] }

\* the responses offered to the call in progress
ResponsesOf(o) ==
    IF o = "calibration" THEN CalResponses
    ELSE IF o = "protocol_select" THEN ProtoResponses
    ELSE ChipResponses

\* byte i (1-based) of the payload the chip shifts out
ChipByte(r, i) == IF i <= Len(r.data) THEN r.data[i] ELSE 0

\* status bytes the chip may answer to a poll
PollFlags == {0, 4, 8}

\* echo bytes the chip may answer during initialization
EchoBytes == {85, 0}

(* --------------------------- rfid_cr95hf_setmode ------------------------ *)
\* the timestamp recorded by a mode change made at time t (us)
SetmodeStamp(t) == Uptime(t)

(* --------------------------- rfid_cr95hf_IRQ_IN_pulse ------------------ *)
\* duration of the IRQ_IN pulse: t0 100 us, t1 10 us, t3 11 ms
IrqInPulseUs == 100 + 10 + 11000

(* --------------------------- rfid_cr95hf_transceive -------------------- *)
\* mutant of BusCall: the send length alone selects the write
BusCall_noDuplex(sl, rl) ==
    IF sl > 0 THEN "write"
    ELSE IF rl > 0 THEN "read"
    ELSE "none"

\* the bus primitive chosen by the two lengths
BusCall(sl, rl) ==
    IF sl > 0 /\ rl > 0 THEN "transceive"
    ELSE IF sl > 0 THEN "write"
    ELSE IF rl > 0 THEN "read"
    ELSE "none"

\* Result of one Frame Transport call started at time t with the lengths
\* (sl, rl): err is the value returned, cs the chip-select state and t the
\* time at return.  A failing bus primitive returns at once: chip select is
\* left asserted and only the first settle delay has elapsed.
Transceive(sl, rl, release_cs, res, t) ==
    LET err == IF BusCall(sl, rl) = "none" THEN 0 ELSE res
    IN  [err |-> err,
         cs  |-> IF err # 0 THEN TRUE ELSE ~release_cs,
         t   |-> IF err # 0 THEN t + 1000
                 ELSE t + 1000 + (IF release_cs THEN 1000 ELSE 0) + 1000]

(* ------------------- spi_snd_buffer.len / spi_rcv_buffer.len ----------- *)
\* the positions from which the next step is a Frame Transport call
BusPcs == {"init_reset", "init_echo", "init_read", "send", "poll_cmd",
           "poll_read", "resp_hdr", "resp_data"}

\* the positions entered by code that has just written a length: the reset
\* command (lines 234-236), a command frame of a public operation, the poll
\* command (lines 313-315) and the header read (lines 391-399)
WritePcs == {"init_reset", "send", "poll_cmd", "resp_hdr"}

\* mutant of FreshAfter: the polling loop writes the lengths in every pass
FreshAfter_pollRewrites(from, to, old) ==
    IF from \in BusPcs
    THEN to # "idle" /\ from # "send"
    ELSE IF to \in WritePcs /\ to # from THEN TRUE ELSE old

\* Whether a length has been written since the last Frame Transport call,
\* after a step of the calling thread from position `from` to position `to`.
\* A step from a position of BusPcs makes the call first: nothing is written
\* after it when the operation returns, between a command send and the wait
\* (e.g. lines 488-497), and in a further pass of the polling loop (lines
\* 328-344, the lengths are set once at lines 325-326); everywhere else the
\* code that follows sets a length for the next call (lines 252-253,
\* 263-266, 325-326, 391-399, 416-418 and the frames of the operations).
FreshAfter(from, to, old) ==
    IF from \in BusPcs
    THEN to # "idle" /\ from # "send" /\ ~(from = "poll_read" /\ to = "poll_read")
    ELSE IF to \in WritePcs /\ to # from THEN TRUE ELSE old

(* ------------------------------ Init ----------------------------------- *)
\* The statically initialized device data (RFID_DEVICE_SPI), before
\* rfid_cr95hf_init_spi has run.
Init ==
    /\ cfg_irq_out \in BOOLEAN
    /\ current_mode = UNINITIALIZED
    /\ cm_timestamp = 0
    /\ now = 0
    /\ snd_buffer = [i \in 0..(CR95HF_SND_BUF_SIZE - 1) |-> 0]
    /\ rcv_buffer = [i \in 0..(CR95HF_RCV_BUF_SIZE - 1) |-> 0]
    /\ snd_len = 0
    /\ rcv_len = 0
    /\ cs = FALSE
    /\ irq_out = FALSE
    /\ int_armed = FALSE
    /\ sem = 0
    /\ pending = NoResponse
    /\ pc = "boot"
    /\ op = "none"
    /\ stage = 0
    /\ req = 0
    /\ ret = 0
    /\ tries = 0
    /\ polls = 0
    /\ uid = BlankUid
    /\ uid_len = 0
    /\ trace = <<>>
    /\ cmds = <<>>
    /\ rsp = <<>>
    /\ calls = 0
    /\ ticks = 0
    /\ faults = 0
    /\ fresh = FALSE

\* a call returns r to the caller
Return(r) ==
    /\ pc' = "idle"
    /\ ret' = r

(* --------------------------- rfid_cr95hf_init_spi ---------------------- *)
INIT_TRIES == 5
ECHO == 85

\* lines 157-236: GPIO and semaphore setup, first IRQ_IN pulse, reset command
InitStart ==
    /\ pc = "boot"
    /\ op' = "init"
    /\ faults' = 0
    /\ pc' = "init_reset"
    /\ tries' = INIT_TRIES
    /\ sem' = 0
    /\ int_armed' = FALSE
    /\ now' = now + IrqInPulseUs + 1000
    /\ snd_buffer' = Put(snd_buffer, <<1>>)
    /\ snd_len' = 1
    /\ rcv_len' = 0
    /\ trace' = <<Ev("pulse", 0, 0, 0)>>
    /\ UNCHANGED <<cfg_irq_out, devvars, rcv_buffer, cs, irq_out, pending, stage,
                   req, ret, polls, uidvars, cmds, rsp, calls, ticks>>
    /\ fresh' = FreshAfter(pc, pc', fresh)

\* lines 238-253: send the reset, pulse IRQ_IN, prepare the echo command
InitReset ==
    /\ pc = "init_reset"
    /\ \E res \in BusOutcomes :
         LET x == Transceive(snd_len, rcv_len, TRUE, res, now) IN
         /\ cs' = x.cs
         /\ faults' = Counted(x.err)
         /\ IF x.err # 0
            THEN /\ Return(x.err)
                 /\ now' = x.t
                 /\ trace' = Append(trace, Ev("init", snd_len, rcv_len, 1))
                 /\ UNCHANGED <<snd_buffer, snd_len>>
            ELSE /\ pc' = "init_echo"
                 /\ now' = x.t + 1000 + 3000 + IrqInPulseUs
                 /\ trace' = trace \o <<Ev("init", snd_len, rcv_len, 1),
                                        Ev("pulse", 0, 0, 0)>>
                 /\ snd_buffer' = Put(snd_buffer, <<0, ECHO>>)
                 /\ snd_len' = 2
                 /\ UNCHANGED ret
    /\ UNCHANGED <<cfg_irq_out, devvars, rcv_buffer, rcv_len, linevars, pending, op,
                   stage, req, tries, polls, uidvars, cmds, rsp, calls, ticks>>
    /\ fresh' = FreshAfter(pc, pc', fresh)

\* lines 254-266: send the echo command, prepare the read of its answer
InitEcho ==
    /\ pc = "init_echo"
    /\ \E res \in BusOutcomes :
         LET x == Transceive(snd_len, rcv_len, TRUE, res, now) IN
         /\ cs' = x.cs
         /\ faults' = Counted(x.err)
         /\ trace' = Append(trace, Ev("init", snd_len, rcv_len, 1))
         /\ IF x.err # 0
            THEN /\ Return(x.err)
                 /\ now' = x.t
                 /\ UNCHANGED <<snd_buffer, snd_len, rcv_len>>
            ELSE /\ pc' = "init_read"
                 /\ now' = x.t + 1000 + 3000
                 /\ snd_buffer' = Put(snd_buffer, <<2>>)
                 /\ snd_len' = 1
                 /\ rcv_len' = 2
                 /\ UNCHANGED ret
    /\ UNCHANGED <<cfg_irq_out, devvars, rcv_buffer, linevars, pending, op,
                   stage, req, tries, polls, uidvars, cmds, rsp, calls, ticks>>
    /\ fresh' = FreshAfter(pc, pc', fresh)

\* the loop condition of the do-while (line 279)
InitRetry(echo, left) == echo # ECHO /\ left > 0

\* mutant of InitFailed: the echo of the last attempt is not looked at
InitFailed_ignoresEcho(echo, left) == left = 0

\* the failure test after the loop (line 281)
InitFailed(echo, left) == left = 0 /\ echo # ECHO

\* lines 268-289: read the echo; retry, fail or succeed
InitRead ==
    /\ pc = "init_read"
    /\ \E res \in BusOutcomes, e \in EchoBytes :
         LET x == Transceive(snd_len, rcv_len, TRUE, res, now)
             left == tries - 1
             t == x.t + 1000 + 3000
         IN
         /\ cs' = x.cs
         /\ faults' = Counted(x.err)
         /\ IF x.err # 0
            THEN /\ Return(x.err)
                 /\ now' = x.t
                 /\ trace' = Append(trace, Ev("init", snd_len, rcv_len, 1))
                 /\ UNCHANGED <<devvars, bufvars, tries>>
            ELSE /\ now' = t
                 /\ tries' = left
                 /\ IF InitRetry(e, left)
                    THEN /\ pc' = "init_reset"
                         /\ rcv_buffer' = Put(rcv_buffer, <<0, e>>)
                         /\ snd_buffer' = Put(snd_buffer, <<1>>)
                         /\ snd_len' = 1
                         /\ rcv_len' = 0
                         /\ trace' = Append(trace, Ev("init", snd_len, rcv_len, 1))
                         /\ UNCHANGED <<devvars, ret>>
                    ELSE /\ rcv_buffer' = Put(rcv_buffer, <<0, e>>)
                         /\ cm_timestamp' = SetmodeStamp(t)
                         /\ UNCHANGED <<snd_buffer, snd_len, rcv_len>>
                         /\ IF InitFailed(e, left)
                            THEN /\ current_mode' = UNINITIALIZED
                                 /\ Return(-EIO)
                                 /\ trace' = trace \o
                                      <<Ev("init", snd_len, rcv_len, 1),
                                        Ev("mode", UNINITIALIZED, 0, 0)>>
                            ELSE /\ current_mode' = POWER_UP
                                 /\ Return(0)
                                 /\ trace' = trace \o
                                      <<Ev("init", snd_len, rcv_len, 1),
                                        Ev("mode", POWER_UP, 0, 0)>>
    /\ UNCHANGED <<cfg_irq_out, linevars, pending, op, stage, req, polls,
                   uidvars, cmds, rsp, calls, ticks>>
    /\ fresh' = FreshAfter(pc, pc', fresh)

(* ------------------------------ the caller ----------------------------- *)
\* the caller lets one millisecond pass between two calls
Tick ==
    /\ pc = "idle"
    /\ ticks < MaxTicks
    /\ ticks' = ticks + 1
    /\ now' = now + 1000
    /\ UNCHANGED <<cfg_irq_out, devvars, bufvars, cs, linevars, pending, pc, op,
                   stage, req, ret, tries, polls, uidvars, trace, cmds, rsp, calls, faults>>
    /\ fresh' = FreshAfter(pc, pc', fresh)

(* --------------------------- rfid_cr95hf_select_mode ------------------- *)
MODE_SETTLE_MS == 10
WAKE_MSG_LEN == 17

\* mutant of SameMode: the request is compared with READY, not the current mode
SameMode_vsReady(m, cur) == m = READY

\* line 448: the requested mode is the current one
SameMode(m, cur) == m = cur

\* mutant of OutOfRange: off by one, INVALID itself is let through
OutOfRange_offByOne(m) == m > INVALID

\* line 453: the requested mode is out of range
OutOfRange(m) == m >= INVALID

\* lines 459-461: the settle sleep (ms) taken for a recorded timestamp ts
SettleSleepMs(ts) == IF ts < MODE_SETTLE_MS THEN MODE_SETTLE_MS - ts ELSE 0

\* mutant of WakesChip: the chip is woken only out of POWER_UP
WakesChip_onlyPowerUp(cur) == cur = POWER_UP

\* lines 464-474: IRQ_IN is pulsed and the mode set to READY
WakesChip(cur) == cur # READY /\ cur # READER

\* lines 481-513: the modes the switch implements
Implemented(m) == m = TAG_DETECTOR

\* mutant of ModeWhileDetecting: the low-power state is recorded as SLEEP
ModeWhileDetecting_sleep == SLEEP

\* line 494: the mode recorded once the wake template has been sent
ModeWhileDetecting == TAG_DETECTOR

\* mutant of ModeAfterWakeup: the transition back to READY is missing
ModeAfterWakeup_stays == TAG_DETECTOR

\* line 507: the mode recorded once the wake-up response has been read
ModeAfterWakeup == READY

\* lines 440-485: from the entry of select_mode to the send of the template
SelectModeCall ==
    /\ pc = "idle"
    /\ calls < MaxCalls
    /\ \E m \in 0..MaxModeArg :
         /\ op' = "select_mode"
         /\ faults' = 0
         /\ req' = m
         /\ calls' = calls + 1
         /\ cmds' = <<>>
         /\ rsp' = <<>>
         /\ IF SameMode(m, current_mode)
            THEN /\ Return(0)
                 /\ trace' = <<>>
                 /\ UNCHANGED <<devvars, now, snd_buffer, snd_len, rcv_len>>
            ELSE IF OutOfRange(m)
            THEN /\ Return(-EINVAL)
                 /\ trace' = <<>>
                 /\ UNCHANGED <<devvars, now, snd_buffer, snd_len, rcv_len>>
            ELSE LET t1 == now + 1000 * SettleSleepMs(cm_timestamp)
                     wake == WakesChip(current_mode)
                     t2 == IF wake THEN t1 + 10 ELSE t1
                 IN  /\ now' = t2 + 1000 * MODE_SETTLE_MS
                     /\ current_mode' = IF wake THEN READY ELSE current_mode
                     /\ cm_timestamp' = IF wake THEN SetmodeStamp(t2)
                                        ELSE cm_timestamp
                     /\ trace' = IF wake THEN <<Ev("pulse", 0, 0, 0),
                                                Ev("mode", READY, 0, 0)>>
                                 ELSE <<Ev("enter", 0, 0, 0)>>
                     /\ IF Implemented(m)
                        THEN /\ pc' = "send"
                             /\ snd_buffer' = Put(snd_buffer,
                                                  Prefix(tag_detector_msg, WAKE_MSG_LEN))
                             /\ snd_len' = WAKE_MSG_LEN
                             /\ rcv_len' = 0
                             /\ UNCHANGED ret
                        ELSE /\ Return(-EINVAL)
                             /\ UNCHANGED <<snd_buffer, snd_len, rcv_len>>
    /\ UNCHANGED <<cfg_irq_out, rcv_buffer, cs, linevars, pending, stage, tries,
                   polls, uidvars, ticks>>
    /\ fresh' = FreshAfter(pc, pc', fresh)

(* --------------------------- command send ------------------------------ *)
\* rfid_cr95hf_transceive(dev, true) of a command frame, as issued by
\* select_mode (line 488) and get_uid (lines 550, 574, 617, 644, 687, 713, 746)
SendCmd ==
    /\ pc = "send"
    /\ \E res \in BusOutcomes :
         LET x == Transceive(snd_len, rcv_len, TRUE, res, now)
             ev == Ev("cmd", snd_len, rcv_len, 1)
         IN
         /\ cs' = x.cs
         /\ faults' = Counted(x.err)
         /\ now' = x.t
         /\ cmds' = Append(cmds, Prefix(snd_buffer, snd_len))
         /\ IF x.err # 0
            THEN /\ Return(x.err)
                 /\ trace' = Append(trace, ev)
                 /\ UNCHANGED devvars
            ELSE /\ pc' = "wait"
                 /\ UNCHANGED ret
                 /\ IF op = "select_mode"
                    THEN /\ current_mode' = ModeWhileDetecting
                         /\ cm_timestamp' = SetmodeStamp(x.t)
                         /\ trace' = trace \o <<ev, Ev("mode", ModeWhileDetecting, 0, 0)>>
                    ELSE /\ UNCHANGED devvars
                         /\ trace' = Append(trace, ev)
    /\ UNCHANGED <<cfg_irq_out, bufvars, linevars, pending, op, stage, req, tries,
                   polls, uidvars, rsp, calls, ticks>>
    /\ fresh' = FreshAfter(pc, pc', fresh)

(* --------------------------- rfid_cr95hf_wait -------------------------- *)
\* rfid_cr95hf_response, lines 391-399: the read-control byte and the lengths
\* of the header transaction
ToResponse ==
    /\ pc' = "resp_hdr"
    /\ snd_buffer' = Put(snd_buffer, <<2>>)
    /\ snd_len' = 1
    /\ rcv_len' = 3

\* mutant of LineReady: the wait returns when the line reads inactive
LineReady_inverted(line) == ~line

\* line 80: gpio_pin_get_dt is nonzero, i.e. the line (configured
\* GPIO_ACTIVE_LOW, line 205) reads active; line is TRUE for active
LineReady(line) == line

\* mutant of ArmedAfterTake: the detection is left enabled
ArmedAfterTake_leftOn == TRUE

\* line 89: gpio_pin_interrupt_configure_dt(irq_out, GPIO_INT_DISABLE)
ArmedAfterTake == FALSE

\* mutant of CallbackRuns: the callback runs on every edge
CallbackRuns_always(armed) == TRUE

\* the callback of lines 1044-1048 runs on an edge to active only while the
\* edge interrupt of line 85 is enabled
CallbackRuns(armed) == armed

\* lines 356-371 with lines 80-82 and 313-315: the strategy is chosen; the
\* signal strategy reads the line, the polling strategy prepares the poll byte
WaitEntry ==
    /\ pc = "wait"
    /\ trace' = Append(trace, Ev("wait", 0, 0, 0))
    /\ polls' = 0
    /\ IF ~cfg_irq_out
       THEN /\ pc' = "poll_cmd"
            /\ snd_buffer' = Put(snd_buffer, <<3>>)
            /\ snd_len' = 1
            /\ rcv_len' = 0
       ELSE IF LineReady(irq_out)
       THEN ToResponse
       ELSE /\ pc' = "irq_arm"
            /\ UNCHANGED <<snd_buffer, snd_len, rcv_len>>
    /\ UNCHANGED <<cfg_irq_out, devvars, now, rcv_buffer, cs, linevars, pending,
                   op, stage, req, ret, tries, uidvars, cmds, rsp, calls, ticks, faults>>
    /\ fresh' = FreshAfter(pc, pc', fresh)

\* line 85: edge-to-active detection is enabled
IrqArm ==
    /\ pc = "irq_arm"
    /\ int_armed' = TRUE
    /\ pc' = "irq_take"
    /\ UNCHANGED <<cfg_irq_out, devvars, now, bufvars, cs, irq_out, sem, pending,
                   op, stage, req, ret, tries, polls, uidvars, trace, cmds, rsp,
                   calls, ticks, faults>>
    /\ fresh' = FreshAfter(pc, pc', fresh)

\* line 87: k_sem_take(&data->irq_out_sem, K_FOREVER) returns with a token
IrqTake ==
    /\ pc = "irq_take"
    /\ sem > 0
    /\ sem' = sem - 1
    /\ pc' = "irq_disarm"
    /\ UNCHANGED <<cfg_irq_out, devvars, now, bufvars, cs, irq_out, int_armed,
                   pending, op, stage, req, ret, tries, polls, uidvars, trace,
                   cmds, rsp, calls, ticks, faults>>
    /\ fresh' = FreshAfter(pc, pc', fresh)

\* line 89: the detection is disabled and the wait returns
IrqDisarm ==
    /\ pc = "irq_disarm"
    /\ int_armed' = ArmedAfterTake
    /\ ToResponse
    /\ UNCHANGED <<cfg_irq_out, devvars, now, rcv_buffer, cs, irq_out, sem,
                   pending, op, stage, req, ret, tries, polls, uidvars, trace,
                   cmds, rsp, calls, ticks, faults>>
    /\ fresh' = FreshAfter(pc, pc', fresh)

\* The chip has the answer to the last command: it drives IRQ_OUT active.
\* With the edge interrupt enabled the callback (line 1047) gives the
\* semaphore, whose limit is 1 (line 211).
ChipReady ==
    /\ cfg_irq_out
    /\ pc \in {"wait", "irq_arm", "irq_take", "irq_disarm"}
    /\ ~irq_out
    /\ irq_out' = TRUE
    /\ sem' = IF CallbackRuns(int_armed) THEN Min(sem + 1, 1) ELSE sem
    /\ UNCHANGED <<cfg_irq_out, devvars, now, bufvars, cs, int_armed, pending, pc,
                   op, stage, req, ret, tries, polls, uidvars, trace, cmds, rsp,
                   calls, ticks, faults>>
    /\ fresh' = FreshAfter(pc, pc', fresh)

(* --------------------------- rfid_cr95hf_polling ----------------------- *)
\* mutant of PollReady: the two flags of the caller are not looked at
PollReady_anyBit(flags, ready_read, ready_send) == Bit(flags, 8) \/ Bit(flags, 4)

\* lines 337-343: a requested ready bit is set
PollReady(flags, ready_read, ready_send) ==
    \/ ready_read /\ Bit(flags, 8)
    \/ ready_send /\ Bit(flags, 4)

\* the flags of the polling in progress: rfid_cr95hf_wait passes 1, 1 (line
\* 365); a direct call keeps its two flags in req (2 * ready_read + ready_send)
ReadyRead == op # "polling" \/ req \div 2 = 1
ReadySend == op # "polling" \/ req % 2 = 1

\* rfid_cr95hf_polling returns err: to its caller when called directly, to
\* rfid_cr95hf_wait otherwise, which drops err and returns to the operation,
\* whose next statement is rfid_cr95hf_response
PollDone(err) ==
    IF op = "polling"
    THEN /\ Return(err)
         /\ UNCHANGED <<snd_buffer, snd_len, rcv_len>>
    ELSE /\ ToResponse
         /\ UNCHANGED ret

\* lines 318-327: the poll command is sent; its failure ends the polling
PollCmd ==
    /\ pc = "poll_cmd"
    /\ \E res \in BusOutcomes :
         LET x == Transceive(snd_len, rcv_len, TRUE, res, now) IN
         /\ cs' = x.cs
         /\ faults' = Counted(x.err)
         /\ now' = x.t
         /\ trace' = Append(trace, Ev("poll", snd_len, rcv_len, 1))
         /\ IF x.err # 0
            THEN PollDone(x.err)
            ELSE /\ pc' = "poll_read"
                 /\ snd_len' = 0
                 /\ rcv_len' = 1
                 /\ UNCHANGED <<snd_buffer, ret>>
    /\ UNCHANGED <<cfg_irq_out, devvars, rcv_buffer, linevars, pending, op, stage,
                   req, tries, polls, uidvars, cmds, rsp, calls, ticks>>
    /\ fresh' = FreshAfter(pc, pc', fresh)

\* lines 328-344: one pass of the loop: clear the flags, read one byte, test it
PollRead ==
    /\ pc = "poll_read"
    /\ \E res \in BusOutcomes, f \in PollFlags :
         LET x == Transceive(snd_len, rcv_len, TRUE, res, now) IN
         /\ PollReady(f, ReadyRead, ReadySend) \/ x.err # 0 \/ polls < MaxPolls
         /\ cs' = x.cs
         /\ faults' = Counted(x.err)
         /\ now' = x.t
         /\ IF x.err # 0
            THEN /\ rcv_buffer' = Put(rcv_buffer, <<0>>)
                 /\ PollDone(x.err)
                 /\ UNCHANGED polls
            ELSE /\ rcv_buffer' = Put(rcv_buffer, <<f>>)
                 /\ IF PollReady(f, ReadyRead, ReadySend)
                    THEN /\ PollDone(0)
                         /\ UNCHANGED polls
                    ELSE /\ polls' = polls + 1
                         /\ UNCHANGED <<pc, snd_buffer, snd_len, rcv_len, ret>>
    /\ UNCHANGED <<cfg_irq_out, devvars, linevars, pending, op, stage, req,
                   tries, uidvars, trace, cmds, rsp, calls, ticks>>
    /\ fresh' = FreshAfter(pc, pc', fresh)

(* --------------------------- rfid_cr95hf_response ---------------------- *)
\* mutant of ClipLen: the declared length is used as it is
ClipLen_none(n) == n

\* lines 412-414: the declared length clipped to the receive buffer
ClipLen(n) == IF n > CR95HF_RCV_BUF_SIZE THEN CR95HF_RCV_BUF_SIZE ELSE n

\* lines 400-418: the header transaction (chip select kept), then the lengths
\* of the data transaction.  Reading the header releases IRQ_OUT.
RespHdr ==
    /\ pc = "resp_hdr"
    /\ \E res \in BusOutcomes, r \in ResponsesOf(op) :
         LET x == Transceive(snd_len, rcv_len, FALSE, res, now) IN
         /\ cs' = x.cs
         /\ faults' = Counted(x.err)
         /\ now' = x.t
         /\ trace' = Append(trace, Ev("resp", snd_len, rcv_len, 0))
         /\ IF x.err # 0
            THEN /\ Return(x.err)
                 /\ UNCHANGED <<rcv_buffer, snd_len, rcv_len, pending, irq_out>>
            ELSE /\ pc' = "resp_data"
                 /\ rcv_buffer' = Put(rcv_buffer, <<0, r.code, r.len>>)
                 /\ pending' = r
                 /\ irq_out' = FALSE
                 /\ snd_len' = 0
                 /\ rcv_len' = ClipLen(r.len)
                 /\ UNCHANGED ret
    /\ UNCHANGED <<cfg_irq_out, devvars, snd_buffer, int_armed, sem, op, stage,
                   req, tries, polls, uidvars, cmds, rsp, calls, ticks>>
    /\ fresh' = FreshAfter(pc, pc', fresh)

\* the receive buffer after the data transaction has read rcv_len bytes
RcvAfterData == Put(rcv_buffer, [i \in 1..rcv_len |-> ChipByte(pending, i)])

\* lines 419-425 and, back in select_mode, lines 500-515
RespDataSelectMode ==
    /\ pc = "resp_data"
    /\ op = "select_mode"
    /\ \E res \in BusOutcomes :
         LET x == Transceive(snd_len, rcv_len, TRUE, res, now)
             ev == Ev("resp", snd_len, rcv_len, 1)
         IN
         /\ cs' = x.cs
         /\ faults' = Counted(x.err)
         /\ now' = x.t
         /\ IF x.err # 0
            THEN /\ Return(x.err)
                 /\ trace' = Append(trace, ev)
                 /\ UNCHANGED <<devvars, rcv_buffer, rsp, pending>>
            ELSE /\ Return(0)
                 /\ rcv_buffer' = RcvAfterData
                 /\ rsp' = Append(rsp, Prefix(RcvAfterData, 5))
                 /\ pending' = NoResponse
                 /\ current_mode' = ModeAfterWakeup
                 /\ cm_timestamp' = SetmodeStamp(x.t)
                 /\ trace' = trace \o <<ev, Ev("mode", ModeAfterWakeup, 0, 0)>>
    /\ UNCHANGED <<cfg_irq_out, snd_buffer, snd_len, rcv_len, linevars, op, stage,
                   req, tries, polls, uidvars, cmds, calls, ticks>>
    /\ fresh' = FreshAfter(pc, pc', fresh)

(* --------------------------- rfid_cr95hf_iso14443A_get_uid ------------- *)
UID_MIN_LEN == 10
CASCADE_TAG == 136
SAK_CASCADE_BIT == 4

\* uid buffer lengths the caller passes
UidLens == {UID_MIN_LEN - 1, UID_MIN_LEN, BigUidLen}

\* mutant of UidArgsBad: off by one, a 9-byte buffer is accepted
UidArgsBad_offByOne(len, uid_null) == len < UID_MIN_LEN - 1 \/ uid_null

\* line 537: the argument check
UidArgsBad(len, uid_null) == len < UID_MIN_LEN \/ uid_null

\* command frames: REQA (543-548), SEL_CLn (566-572, 636-642, 705-711) and
\* SEL_CLn complete, which echoes rcv_buffer[0..4] (603-615, 673-685, 732-744)
Reqa == <<0, 4, 2, 38, 7>>
Sel(cl) == <<0, 4, 3, cl, 32, 8>>
SelComplete_shifted(cl, r) == <<0, 4, 8, cl, 112, r[1], r[2], r[3], r[4], r[5], 40>>
SelComplete(cl, r) == <<0, 4, 8, cl, 112, r[0], r[1], r[2], r[3], r[4], 40>>

\* the select byte of cascade level n
SelByte(n) == 145 + 2 * n

\* lines 590-600: the uid bytes and the length after the SEL_CL1 response r
DecodeCL1(u, r) ==
    IF r[0] = CASCADE_TAG
    THEN [u EXCEPT ![0] = r[1], ![1] = r[2], ![2] = r[3]]
    ELSE [u EXCEPT ![0] = r[0], ![1] = r[1], ![2] = r[2], ![3] = r[3]]

LenCL1(len, r) == IF r[0] = CASCADE_TAG THEN len ELSE 4

\* mutant of DecodeCL2: the cascade tag is not skipped at level 2
DecodeCL2_keepsTag(u, r) == [u EXCEPT ![3] = r[0], ![4] = r[1], ![5] = r[2], ![6] = r[3]]

\* lines 659-671: the same after the SEL_CL2 response
DecodeCL2(u, r) ==
    IF r[0] = CASCADE_TAG
    THEN [u EXCEPT ![3] = r[1], ![4] = r[2], ![5] = r[3]]
    ELSE [u EXCEPT ![3] = r[0], ![4] = r[1], ![5] = r[2], ![6] = r[3]]

LenCL2(len, r) == IF r[0] = CASCADE_TAG THEN len ELSE 7

\* lines 727-731: the same after the SEL_CL3 response
DecodeCL3(u, r) == [u EXCEPT ![6] = r[0], ![7] = r[1], ![8] = r[2], ![9] = r[3]]

LenCL3(len, r) == 10

\* mutant of MoreLevels: the next cascade level is entered whatever the SAK
MoreLevels_always(sak) == TRUE

\* mutant of MoreLevels: the wrong bit of the SAK byte is tested
MoreLevels_wrongBit(sak) == Bit(sak, 32)

\* lines 635 and 704: the SAK byte asks for another cascade level
MoreLevels(sak) == Bit(sak, SAK_CASCADE_BIT)

\* the next command frame is written and sent
NextCmd(frame, st) ==
    /\ pc' = "send"
    /\ stage' = st
    /\ snd_buffer' = Put(snd_buffer, frame)
    /\ snd_len' = Len(frame)
    /\ rcv_len' = 0
    /\ UNCHANGED ret

\* get_uid returns 0 (line 776)
UidDone ==
    /\ Return(0)
    /\ UNCHANGED <<stage, snd_buffer, snd_len, rcv_len>>

\* lines 530-549: the argument check and the REQA frame
GetUidCall ==
    /\ pc = "idle"
    /\ calls < MaxUidCalls
    /\ \E len \in UidLens, uid_null \in BOOLEAN :
         /\ op' = "get_uid"
         /\ faults' = 0
         /\ req' = len
         /\ calls' = calls + 1
         /\ uid' = BlankUid
         /\ uid_len' = len
         /\ trace' = <<>>
         /\ cmds' = <<>>
         /\ rsp' = <<>>
         /\ IF UidArgsBad(len, uid_null)
            THEN /\ Return(-EINVAL)
                 /\ UNCHANGED <<stage, snd_buffer, snd_len, rcv_len>>
            ELSE NextCmd(Reqa, 0)
    /\ UNCHANGED <<cfg_irq_out, devvars, now, rcv_buffer, cs, linevars, pending,
                   tries, polls, ticks>>
    /\ fresh' = FreshAfter(pc, pc', fresh)

\* the data transaction of rfid_cr95hf_response (lines 419-425) and the code
\* of get_uid that follows the response of exchange `stage`, up to the next
\* command send or the return
RespDataGetUid ==
    /\ pc = "resp_data"
    /\ op = "get_uid"
    /\ \E res \in BusOutcomes :
         LET x == Transceive(snd_len, rcv_len, TRUE, res, now)
             r == RcvAfterData
         IN
         /\ cs' = x.cs
         /\ faults' = Counted(x.err)
         /\ now' = x.t
         /\ trace' = Append(trace, Ev("resp", snd_len, rcv_len, 1))
         /\ IF x.err # 0
            THEN /\ Return(x.err)
                 /\ UNCHANGED <<stage, bufvars, rsp, pending, uidvars>>
            ELSE /\ rcv_buffer' = r
                 /\ rsp' = Append(rsp, Prefix(r, 5))
                 /\ pending' = NoResponse
                 /\ CASE stage = 0 ->
                           /\ NextCmd(Sel(SelByte(1)), 1)
                           /\ UNCHANGED uidvars
                      [] stage = 1 ->
                           /\ uid' = DecodeCL1(uid, r)
                           /\ uid_len' = LenCL1(uid_len, r)
                           /\ NextCmd(SelComplete(SelByte(1), r), 2)
                      [] stage = 2 ->
                           /\ UNCHANGED uidvars
                           /\ IF MoreLevels(r[0])
                              THEN NextCmd(Sel(SelByte(2)), 3)
                              ELSE UidDone
                      [] stage = 3 ->
                           /\ uid' = DecodeCL2(uid, r)
                           /\ uid_len' = LenCL2(uid_len, r)
                           /\ NextCmd(SelComplete(SelByte(2), r), 4)
                      [] stage = 4 ->
                           /\ UNCHANGED uidvars
                           /\ IF MoreLevels(r[0])
                              THEN NextCmd(Sel(SelByte(3)), 5)
                              ELSE UidDone
                      [] stage = 5 ->
                           /\ uid' = DecodeCL3(uid, r)
                           /\ uid_len' = LenCL3(uid_len, r)
                           /\ NextCmd(SelComplete(SelByte(3), r), 6)
                      [] OTHER ->
                           /\ UNCHANGED uidvars
                           /\ UidDone
    /\ UNCHANGED <<cfg_irq_out, devvars, linevars, op, req, tries, polls, cmds,
                   calls, ticks>>
    /\ fresh' = FreshAfter(pc, pc', fresh)

(* --------------------------- rfid_cr95hf_protocol_select --------------- *)
\* line 1077: protocol_msg_len
PROTOCOL_MSG_LEN == 7

\* mutant of ProtocolImplemented: ISO 14443 B is taken for ISO 14443 A
ProtocolImplemented_anyIso14443(p) == p \in {ISO_14443A, ISO_14443B}

\* lines 791-819: the protocols the switch implements
ProtocolImplemented(p) == p = ISO_14443A

\* lines 786-797: the switch on proto and the protocol template
ProtocolSelectCall ==
    /\ pc = "idle"
    /\ calls < MaxCalls
    /\ \E p \in 0..MaxProtoArg :
         /\ op' = "protocol_select"
         /\ faults' = 0
         /\ req' = p
         /\ calls' = calls + 1
         /\ trace' = <<>>
         /\ cmds' = <<>>
         /\ rsp' = <<>>
         /\ IF ProtocolImplemented(p)
            THEN NextCmd(Prefix(protocol_msg, PROTOCOL_MSG_LEN), 0)
            ELSE /\ Return(-EINVAL)
                 /\ UNCHANGED <<stage, snd_buffer, snd_len, rcv_len>>
    /\ UNCHANGED <<cfg_irq_out, devvars, now, rcv_buffer, cs, linevars, pending,
                   tries, polls, uidvars, ticks>>
    /\ fresh' = FreshAfter(pc, pc', fresh)

\* the data transaction of rfid_cr95hf_response (lines 419-425) and, back in
\* protocol_select, lines 806-820: the response is not looked at
RespDataProtocolSelect ==
    /\ pc = "resp_data"
    /\ op = "protocol_select"
    /\ \E res \in BusOutcomes :
         LET x == Transceive(snd_len, rcv_len, TRUE, res, now) IN
         /\ cs' = x.cs
         /\ faults' = Counted(x.err)
         /\ now' = x.t
         /\ trace' = Append(trace, Ev("resp", snd_len, rcv_len, 1))
         /\ IF x.err # 0
            THEN /\ Return(x.err)
                 /\ UNCHANGED <<rcv_buffer, rsp, pending>>
            ELSE /\ Return(0)
                 /\ rcv_buffer' = RcvAfterData
                 /\ rsp' = Append(rsp, Prefix(RcvAfterData, 5))
                 /\ pending' = NoResponse
    /\ UNCHANGED <<cfg_irq_out, devvars, snd_buffer, snd_len, rcv_len, linevars, op,
                   stage, req, tries, polls, uidvars, cmds, calls, ticks>>
    /\ fresh' = FreshAfter(pc, pc', fresh)

(* --------------------------- rfid_cr95hf_transceive_api ---------------- *)
\* mutant of TransceiveApiResult: the stub reports an invalid argument
TransceiveApiResult_einval == -EINVAL

\* line 833: the value the stub returns
TransceiveApiResult == -EPERM

\* lines 829-834: tx, tx_len, rx and rx_len are not used
TransceiveApiCall ==
    /\ pc = "idle"
    /\ calls < MaxCalls
    /\ \E tx_len \in 0..MaxTxLen :
         /\ op' = "transceive"
         /\ req' = tx_len
    /\ faults' = 0
    /\ calls' = calls + 1
    /\ trace' = <<>>
    /\ cmds' = <<>>
    /\ rsp' = <<>>
    /\ Return(TransceiveApiResult)
    /\ UNCHANGED <<cfg_irq_out, devvars, now, bufvars, cs, linevars, pending,
                   stage, tries, polls, uidvars, ticks>>
    /\ fresh' = FreshAfter(pc, pc', fresh)

(* --------------------------- rfid_cr95hf_calibration ------------------- *)
\* line 872: the number of probes
CAL_STEPS == 8

\* lines 853-869: the idle command; byte 14 is the DAC reference
CalFrame == <<0, 7, 14, 3, 161, 0, 248, 1, 24, 0, 32, 96, 96, 0, 0, 63, 1>>

\* the outcomes compared with rcv_buffer[0..2]
CAL_LOW == <<0, 1, 1>>
CAL_HIGH == <<0, 1, 2>>

\* mutant of CalAllowed: steps 0 and 1 accept both outcomes
CalAllowed_lax(i, t) == t \in {CAL_LOW, CAL_HIGH}

\* lines 896-1018: the outcomes step i accepts
CalAllowed(i, t) ==
    CASE i = 0 -> t = CAL_HIGH
      [] i = 1 -> t = CAL_LOW
      [] OTHER -> t \in {CAL_LOW, CAL_HIGH}

\* mutant of CalStep: the step size is not halved
CalStep_noHalving(i) == 64

\* lines 924-995: the step size of steps 2..6 (0x40, 0x20, 0x10, 0x08, 0x04)
CalStep(i) == 2 ^ (8 - i)

\* mutant of CalNextDac: step 1 leaves the value at 0xFC
CalNextDac_keepsFirst(i, d, t) ==
    CASE i = 0 -> 252
      [] i = 1 -> d
      [] OTHER -> IF t = CAL_LOW THEN (d - CalStep(i)) % 256
                                 ELSE (d + CalStep(i)) % 256

\* lines 905, 917 and 924-995: snd_buffer[14] (uint8_t) after step i < 7
CalNextDac(i, d, t) ==
    CASE i = 0 -> 252
      [] i = 1 -> (d - 128) % 256
      [] OTHER -> IF t = CAL_LOW THEN (d - CalStep(i)) % 256
                                 ELSE (d + CalStep(i)) % 256

\* lines 999-1013: the int returned by step 7
CalResult(d, t) == IF t = CAL_LOW THEN d - 4 ELSE d

\* lines 844-874: the idle command is written, the loop starts with i = 0
CalibrationCall ==
    /\ pc = "idle"
    /\ calls < MaxCalCalls
    /\ op' = "calibration"
    /\ faults' = 0
    /\ req' = 0
    /\ calls' = calls + 1
    /\ trace' = <<>>
    /\ cmds' = <<>>
    /\ rsp' = <<>>
    /\ NextCmd(CalFrame, 0)
    /\ UNCHANGED <<cfg_irq_out, devvars, now, rcv_buffer, cs, linevars, pending,
                   tries, polls, uidvars, ticks>>
    /\ fresh' = FreshAfter(pc, pc', fresh)

\* the data transaction of rfid_cr95hf_response (lines 419-425) and the
\* switch on the step i = stage (lines 895-1025), up to the next probe or the
\* return
RespDataCalibration ==
    /\ pc = "resp_data"
    /\ op = "calibration"
    /\ \E res \in BusOutcomes :
         LET x == Transceive(snd_len, rcv_len, TRUE, res, now)
             r == RcvAfterData
             t == <<r[0], r[1], r[2]>>
             d == snd_buffer[14]
         IN
         /\ cs' = x.cs
         /\ faults' = Counted(x.err)
         /\ now' = x.t
         /\ trace' = Append(trace, Ev("resp", snd_len, rcv_len, 1))
         /\ IF x.err # 0
            THEN /\ Return(x.err)
                 /\ UNCHANGED <<stage, bufvars, rsp, pending>>
            ELSE /\ rcv_buffer' = r
                 /\ rsp' = Append(rsp, Prefix(r, 5))
                 /\ pending' = NoResponse
                 /\ IF ~CalAllowed(stage, t)
                    THEN /\ Return(-EIO)
                         /\ UNCHANGED <<stage, snd_buffer, snd_len, rcv_len>>
                    ELSE IF stage = CAL_STEPS - 1
                    THEN /\ Return(CalResult(d, t))
                         /\ UNCHANGED <<stage, snd_buffer, snd_len, rcv_len>>
                    ELSE /\ pc' = "send"
                         /\ stage' = stage + 1
                         /\ snd_buffer' = [snd_buffer EXCEPT ![14] = CalNextDac(stage, d, t)]
                         /\ snd_len' = 17
                         /\ rcv_len' = 0
                         /\ UNCHANGED ret
    /\ UNCHANGED <<cfg_irq_out, devvars, linevars, op, req, tries, polls, uidvars,
                   cmds, calls, ticks>>
    /\ fresh' = FreshAfter(pc, pc', fresh)

(* --------------------------- direct calls of the static functions ------ *)
\* rfid_cr95hf_transceive(dev, release_cs) called with the lengths (sl, rl);
\* the event records the bus primitive called and the result it is given
TransportCall ==
    /\ pc = "idle"
    /\ calls < MaxCalls
    /\ \E sl \in 0..MaxSndLen, rl \in 0..MaxRcvLen, release_cs \in BOOLEAN,
          res \in BusResults :
         LET x == Transceive(sl, rl, release_cs, res, now) IN
         /\ op' = "transport"
         /\ req' = IF release_cs THEN 1 ELSE 0
         /\ snd_len' = sl
         /\ rcv_len' = rl
         /\ cs' = x.cs
         /\ now' = x.t
         /\ faults' = IF x.err # 0 THEN 1 ELSE 0
         /\ trace' = <<Ev(BusCall(sl, rl), sl, rl, res)>>
         /\ Return(x.err)
    /\ calls' = calls + 1
    /\ cmds' = <<>>
    /\ rsp' = <<>>
    /\ fresh' = FALSE
    /\ UNCHANGED <<cfg_irq_out, devvars, snd_buffer, rcv_buffer, linevars, pending,
                   stage, tries, polls, uidvars, ticks>>

\* rfid_cr95hf_polling(dev, ready_read, ready_send), lines 307-315
PollingCall ==
    /\ pc = "idle"
    /\ calls < MaxCalls
    /\ \E ready_read \in BOOLEAN, ready_send \in BOOLEAN :
         req' = (IF ready_read THEN 2 ELSE 0) + (IF ready_send THEN 1 ELSE 0)
    /\ op' = "polling"
    /\ pc' = "poll_cmd"
    /\ snd_buffer' = Put(snd_buffer, <<3>>)
    /\ snd_len' = 1
    /\ rcv_len' = 0
    /\ polls' = 0
    /\ faults' = 0
    /\ calls' = calls + 1
    /\ trace' = <<>>
    /\ cmds' = <<>>
    /\ rsp' = <<>>
    /\ fresh' = TRUE
    /\ UNCHANGED <<cfg_irq_out, devvars, now, rcv_buffer, cs, linevars, pending,
                   stage, ret, tries, uidvars, ticks>>

(* ------------------------------ specifications ------------------------- *)
NextInit == InitStart \/ InitReset \/ InitEcho \/ InitRead

NextWait ==
    WaitEntry \/ IrqArm \/ IrqTake \/ IrqDisarm \/ ChipReady \/ PollCmd \/ PollRead

NextMode == Tick \/ SelectModeCall \/ SendCmd \/ NextWait \/ RespHdr \/ RespDataSelectMode

\* the mode state machine: initialization, then select_mode calls
Next == NextInit \/ NextMode

Spec == Init /\ [][Next]_vars

\* The idle device after an initialization whose first echo attempt
\* succeeded, with current_mode = m (rfid_cr95hf_init_spi leaves POWER_UP).
Booted(m) ==
    /\ cfg_irq_out \in BOOLEAN
    /\ current_mode = m
    /\ now = 44220
    /\ cm_timestamp = SetmodeStamp(now)
    /\ snd_buffer = [i \in 0..(CR95HF_SND_BUF_SIZE - 1) |->
                       IF i = 0 THEN 2 ELSE IF i = 1 THEN ECHO ELSE 0]
    /\ rcv_buffer = [i \in 0..(CR95HF_RCV_BUF_SIZE - 1) |-> IF i = 1 THEN ECHO ELSE 0]
    /\ snd_len = 1
    /\ rcv_len = 2
    /\ cs = FALSE
    /\ irq_out = FALSE
    /\ int_armed = FALSE
    /\ sem = 0
    /\ pending = NoResponse
    /\ pc = "idle"
    /\ op = "init"
    /\ stage = 0
    /\ req = 0
    /\ ret = 0
    /\ tries = INIT_TRIES - 1
    /\ polls = 0
    /\ uid = BlankUid
    /\ uid_len = 0
    /\ trace = <<Ev("pulse", 0, 0, 0), Ev("init", 1, 0, 1), Ev("pulse", 0, 0, 0),
                 Ev("init", 2, 0, 1), Ev("init", 1, 2, 1), Ev("mode", m, 0, 0)>>
    /\ cmds = <<>>
    /\ rsp = <<>>
    /\ calls = 0
    /\ ticks = 0
    /\ faults = 0
    /\ fresh = FALSE

\* the state Booted(POWER_UP) is reached by the initialization
BootedReached == ~Booted(POWER_UP)

\* select_mode as a function of the device data: the device is idle after
\* initialization and current_mode is drawn from the in-range values of
\* rfid_mode_t.  No operation of the driver stores HIBERNATE, SLEEP or READER,
\* so the branches of select_mode that test for them are exercised only here.
InitAnyMode == \E m \in UNINITIALIZED..READER : Booted(m)

SpecAnyMode == InitAnyMode /\ [][NextMode]_vars

\* the anticollision: initialization, then get_uid calls
NextUid == GetUidCall \/ SendCmd \/ NextWait \/ RespHdr \/ RespDataGetUid

InitUid == Booted(POWER_UP)

\* the driver API without the anticollision and the calibration:
\* initialization, then select_mode, protocol_select and transceive calls
NextApi ==
    \/ SelectModeCall \/ ProtocolSelectCall \/ TransceiveApiCall
    \/ SendCmd \/ NextWait \/ RespHdr
    \/ RespDataSelectMode \/ RespDataProtocolSelect

InitApi == Booted(POWER_UP)

\* the calibration: initialization, then a calibration call
NextCal == CalibrationCall \/ SendCmd \/ NextWait \/ RespHdr \/ RespDataCalibration

InitCal == Booted(POWER_UP)

\* Frame Transport as a function of the lengths and the release flag
InitTransport == Booted(POWER_UP)

SpecTransport == InitTransport /\ [][TransportCall]_vars

\* the polling loop as a function of its two flags
NextPoll == PollingCall \/ PollCmd \/ PollRead

InitPoll == Booted(POWER_UP)

SpecPoll == InitPoll /\ [][NextPoll]_vars

SpecCal == InitCal /\ [][NextCal]_vars

SpecApi == InitApi /\ [][NextApi]_vars

\* the steps of the calling thread between a call and its return
ThreadStep ==
    \/ SendCmd \/ WaitEntry \/ IrqArm \/ IrqTake \/ IrqDisarm \/ PollCmd \/ PollRead
    \/ RespHdr \/ RespDataSelectMode \/ RespDataProtocolSelect

\* the calling thread is scheduled whenever it can run: it is never
\* suspended except in k_sleep and k_sem_take
SpecApiFair == SpecApi /\ WF_vars(ThreadStep)

SpecUid == InitUid /\ [][NextUid]_vars

(* ------------------------------ properties ----------------------------- *)
\* the step is the entry of a select_mode call
SelectModeEntry == calls' = calls + 1 /\ op' = "select_mode"

\* the positions of a call between the command send and the end of the
\* response read
WaitingPcs == {"wait", "poll_cmd", "poll_read", "irq_arm", "irq_take", "irq_disarm",
               "resp_hdr", "resp_data"}

\* a trace without the transactions of the polling loop
NoPolls(t) == SelectSeq(t, LAMBDA ev : ev.e # "poll")

\* a finished select_mode call that got past its argument checks
SelectModeRan == pc = "idle" /\ op = "select_mode" /\ trace # <<>>

\* C1: select_mode(m) with m = current_mode returns 0 and changes nothing: no
\* bus transaction, no IRQ_IN pulse, no sleep, current_mode and cm_timestamp
\* keep their values.
C1_SameModeIsNoOp ==
    [][ (SelectModeEntry /\ req' = current_mode)
        => /\ pc' = "idle"
           /\ ret' = 0
           /\ trace' = <<>>
           /\ UNCHANGED <<current_mode, cm_timestamp, now, cs, bufvars, linevars>>
      ]_vars

C1_Witness ==
    /\ pc = "idle" /\ op = "select_mode" /\ ret = 0 /\ trace = <<>>
    /\ req = READY /\ current_mode = READY

\* C2: select_mode(m) with m >= INVALID and m # current_mode returns -EINVAL
\* before any bus transaction, pulse or sleep, and leaves current_mode and
\* cm_timestamp unchanged.
C2_OutOfRangeRejected ==
    [][ (SelectModeEntry /\ req' >= INVALID /\ req' # current_mode)
        => /\ pc' = "idle"
           /\ ret' = -EINVAL
           /\ trace' = <<>>
           /\ UNCHANGED <<current_mode, cm_timestamp, now, cs, bufvars, linevars>>
      ]_vars

C2_Witness ==
    /\ pc = "idle" /\ op = "select_mode" /\ ret = -EINVAL /\ trace = <<>>
    /\ req = INVALID /\ current_mode = POWER_UP

\* C3: a successful select_mode(TAG_DETECTOR) sends the 17-byte wake template
\* with chip select released, records TAG_DETECTOR, waits for readiness, reads
\* the response and records READY, in this order; current_mode is
\* TAG_DETECTOR exactly between the send and the end of the response read,
\* and the call returns with current_mode = READY.
C3_TagDetectorSequence ==
    /\ (op = "select_mode" /\ pc = "send")
       => /\ snd_len = WAKE_MSG_LEN
          /\ rcv_len = 0
          /\ Prefix(snd_buffer, WAKE_MSG_LEN) = Prefix(tag_detector_msg, WAKE_MSG_LEN)
          /\ current_mode = READY
    /\ (op = "select_mode" /\ pc \in WaitingPcs) => current_mode = TAG_DETECTOR
    /\ (SelectModeRan /\ ret = 0)
       => LET s == NoPolls(trace)
              n == Len(s)
          IN  /\ req = TAG_DETECTOR
              /\ current_mode = READY
              /\ n \in {7, 8}
              /\ s[n - 5] = Ev("cmd", WAKE_MSG_LEN, 0, 1)
              /\ s[n - 4] = Ev("mode", TAG_DETECTOR, 0, 0)
              /\ s[n - 3] = Ev("wait", 0, 0, 0)
              /\ s[n - 2] = Ev("resp", 1, 3, 0)
              /\ s[n - 1].e = "resp" /\ s[n - 1].a = 0 /\ s[n - 1].c = 1
              /\ s[n] = Ev("mode", READY, 0, 0)
              /\ \A i \in 1..(n - 6) : s[i].e \in {"enter", "pulse", "mode"}
              /\ Len(cmds) = 1
              /\ cmds[1] = Prefix(tag_detector_msg, WAKE_MSG_LEN)

C3_Witness ==
    /\ SelectModeRan /\ ret = 0 /\ req = TAG_DETECTOR /\ current_mode = READY
    /\ trace[Len(trace)] = Ev("mode", READY, 0, 0)

\* C4 (as claimed): a select_mode call that passes its argument checks less
\* than 10 ms after the last recorded mode transition blocks for the
\* remainder first, so the IRQ_IN pulse (and the READY transition recorded
\* with it) never comes less than 10 ms after the previous transition.
C4_SettleBeforeWake ==
    [][ (SelectModeEntry /\ current_mode' # current_mode)
        => cm_timestamp' >= cm_timestamp + MODE_SETTLE_MS
      ]_vars

C6_UnimplementedDistinctError ==
    (SelectModeRan /\ req < INVALID /\ req # TAG_DETECTOR)
    => /\ ret < 0
       /\ ret # -EINVAL
       /\ \A i \in 1..Len(trace) : ~IsSpi(trace[i])

\* C7: select_mode does not roll the mode back: a failed send of the wake
\* template returns the bus error with current_mode = READY, a failed
\* response read returns it with current_mode = TAG_DETECTOR, and a refused
\* unimplemented mode leaves current_mode = READY.
C7_NoRollback ==
    (SelectModeRan /\ ret # 0)
    => LET last == trace[Len(trace)]
       IN  /\ last.e = "cmd" => (ret = -EBUSY /\ current_mode = READY)
           /\ last.e = "resp" => (ret = -EBUSY /\ current_mode = TAG_DETECTOR)
           /\ last.e \notin {"cmd", "resp"}
              => (ret = -EINVAL /\ req # TAG_DETECTOR /\ current_mode = READY)

C7_Witness ==
    /\ SelectModeRan /\ ret = -EBUSY /\ current_mode = READY
    /\ trace[1].e = "pulse"
    /\ trace[Len(trace)].e = "cmd"

\* the step is the entry of a get_uid call
GetUidEntry == calls' = calls + 1 /\ op' = "get_uid"

\* a get_uid call that returned 0
GetUidOk == pc = "idle" /\ op = "get_uid" /\ ret = 0

\* C8: get_uid with a buffer length below 10 returns -EINVAL before any bus
\* transaction; the caller's uid bytes and length are not written.
C8_ShortBufferRejected ==
    [][ (GetUidEntry /\ req' < 10)
        => /\ pc' = "idle"
           /\ ret' = -EINVAL
           /\ trace' = <<>>
           /\ cmds' = <<>>
           /\ uid' = BlankUid
           /\ uid_len' = req'
           /\ UNCHANGED <<current_mode, cm_timestamp, now, cs, bufvars, linevars>>
      ]_vars

C8_Witness ==
    /\ pc = "idle" /\ op = "get_uid" /\ req = 9 /\ ret = -EINVAL
    /\ trace = <<>> /\ uid = BlankUid /\ uid_len = 9

\* C9 (as claimed): every get_uid call that returns 0 reports a uid length
\* of 4, 7 or 10.
C9_UidLenIs4or7or10 == GetUidOk => uid_len \in {4, 7, 10}

\* C10 (as claimed): after the SEL_CL1 response, a leading 0x88 puts response
\* bytes 1-3 at uid[0..2] and cascade level 2 is entered whatever the SAK
\* byte of the SEL_CL1-complete response is; otherwise response bytes 0-3 go
\* to uid[0..3] and the length is 4.
C10_CascadeTagForcesLevel2 ==
    (op = "get_uid" /\ Len(rsp) >= 2)
    => LET r == rsp[2]
       IN  IF r[1] = 136
           THEN /\ uid[0] = r[2] /\ uid[1] = r[3] /\ uid[2] = r[4]
                /\ Len(rsp) >= 3 => stage >= 3
           ELSE stage = 2
                => /\ uid[0] = r[1] /\ uid[1] = r[2] /\ uid[2] = r[3] /\ uid[3] = r[4]
                   /\ uid_len = 4

\* C10 (amended): after the SEL_CL1 response, a leading 0x88 puts response
\* bytes 1-3 at uid[0..2] and leaves uid[3] and the length unwritten;
\* otherwise response bytes 0-3 go to uid[0..3] and the length is 4.  In both
\* cases the cascade level 2 select (95 20 08) is issued exactly when the SAK
\* byte of the SEL_CL1-complete response has bit 0x04 set.
C10_Cl1DecodeAndSak ==
    (op = "get_uid" /\ Len(rsp) >= 2)
    => LET r == rsp[2]
       IN  /\ r[1] = 136
              => /\ uid[0] = r[2] /\ uid[1] = r[3] /\ uid[2] = r[4]
                 /\ stage = 2 => (uid[3] = -1 /\ uid_len = req)
           /\ r[1] # 136
              => /\ uid[0] = r[1] /\ uid[1] = r[2] /\ uid[2] = r[3]
                 /\ stage = 2 => (uid[3] = r[4] /\ uid_len = 4)
           /\ Len(rsp) >= 3 => (stage >= 3 <=> (rsp[3][1] \div 4) % 2 = 1)
           /\ (stage = 3 /\ pc = "send")
              => (snd_len = 6 /\ Prefix(snd_buffer, 6) = <<0, 4, 3, 149, 32, 8>>)
           /\ Len(cmds) >= 4 => cmds[4] = <<0, 4, 3, 149, 32, 8>>

C10_Witness ==
    /\ GetUidOk /\ Len(rsp) = 3 /\ rsp[2][1] = 136 /\ stage = 2
    /\ uid[0] = 17 /\ uid[1] = 34 /\ uid[2] = 51 /\ Len(cmds) = 3

\* response k of the current call has been read and its first byte (the SAK
\* of a completion response) has bit 0x04 set
SakMore(k) == Len(rsp) >= k /\ (rsp[k][1] \div 4) % 2 = 1

\* C11: in get_uid the level 2 commands (95 20 08 / 95 70 ..) are sent iff
\* the SAK read after SEL_CL1-complete has bit 0x04 set, and the level 3
\* commands (97 20 08 / 97 70 ..) iff level 2 ran and its SAK has the bit
\* set; a successful call makes exactly 3, 5 or 7 exchanges.  AA BB CC DD EE
\* with SAK clear gives uid AA BB CC DD and length 4; 88 11 22 33 44 with
\* SAK clear gives uid bytes 11 22 33, no level 2 exchange and no length 7.
C11_SakDrivenLevels ==
    op = "get_uid"
    => /\ Len(rsp) >= 3 => (stage >= 3 <=> SakMore(3))
       /\ Len(rsp) >= 5 => (stage >= 5 <=> SakMore(5))
       /\ Len(cmds) >= 4 => (SakMore(3) /\ cmds[4] = <<0, 4, 3, 149, 32, 8>>)
       /\ Len(cmds) >= 5 => (cmds[5][4] = 149 /\ cmds[5][5] = 112)
       /\ Len(cmds) >= 6 => (SakMore(3) /\ SakMore(5) /\ cmds[6] = <<0, 4, 3, 151, 32, 8>>)
       /\ Len(cmds) >= 7 => (cmds[7][4] = 151 /\ cmds[7][5] = 112)
       /\ \A i \in 1..Len(cmds) :
            /\ i <= 3 => cmds[i][4] \notin {149, 151}
            /\ i <= 5 => cmds[i][4] # 151
       /\ GetUidOk
          => /\ Len(cmds) \in {3, 5, 7}
             /\ Len(rsp) = Len(cmds)
             /\ Len(cmds) = 3 <=> ~SakMore(3)
             /\ Len(cmds) = 7 <=> (SakMore(3) /\ SakMore(5))
       /\ (GetUidOk /\ rsp[2] = <<170, 187, 204, 221, 238>> /\ ~SakMore(3))
          => /\ uid[0] = 170 /\ uid[1] = 187 /\ uid[2] = 204 /\ uid[3] = 221
             /\ uid_len = 4
       /\ (GetUidOk /\ rsp[2] = <<136, 17, 34, 51, 68>> /\ ~SakMore(3))
          => /\ uid[0] = 17 /\ uid[1] = 34 /\ uid[2] = 51 /\ uid[3] = -1
             /\ Len(cmds) = 3
             /\ uid_len # 7

C11_Witness ==
    /\ GetUidOk /\ Len(cmds) = 5 /\ SakMore(3) /\ ~SakMore(5)
    /\ cmds[4] = <<0, 4, 3, 149, 32, 8>>

\* a get_uid call that returned 0 after three cascade levels, with the
\* cascade tag leading the level 1 and level 2 responses
FullCascade ==
    /\ GetUidOk /\ Len(rsp) = 7
    /\ rsp[2][1] = 136 /\ rsp[4][1] = 136
    /\ SakMore(3) /\ SakMore(5) /\ ~SakMore(7)

\* C12: a full three-level cascade returns 0 with length 10 and uid = level 1
\* response bytes 1-3, level 2 response bytes 1-3, level 3 response bytes 0-3.
C12_FullCascadeUid ==
    FullCascade
    => /\ uid_len = 10
       /\ uid[0] = rsp[2][2] /\ uid[1] = rsp[2][3] /\ uid[2] = rsp[2][4]
       /\ uid[3] = rsp[4][2] /\ uid[4] = rsp[4][3] /\ uid[5] = rsp[4][4]
       /\ uid[6] = rsp[6][1] /\ uid[7] = rsp[6][2] /\ uid[8] = rsp[6][3]
       /\ uid[9] = rsp[6][4]

C12_Witness ==
    /\ FullCascade /\ uid_len = 10 /\ req = 16
    /\ uid[0] = 17 /\ uid[3] = 17 /\ uid[6] = 170 /\ uid[9] = 221

\* the command frame get_uid sends as its i-th command, given the responses
\* read so far
ExpectedCmd(i) ==
    CASE i = 1 -> <<0, 4, 2, 38, 7>>
      [] i = 2 -> <<0, 4, 3, 147, 32, 8>>
      [] i = 3 -> <<0, 4, 8, 147, 112>> \o rsp[2] \o <<40>>
      [] i = 4 -> <<0, 4, 3, 149, 32, 8>>
      [] i = 5 -> <<0, 4, 8, 149, 112>> \o rsp[4] \o <<40>>
      [] i = 6 -> <<0, 4, 3, 151, 32, 8>>
      [] OTHER -> <<0, 4, 8, 151, 112>> \o rsp[6] \o <<40>>

\* C13: every exchange of get_uid is command send (send length > 0, receive
\* length 0, chip select released), readiness wait, response read; the
\* commands come in the order REQA, SEL_CL1, SEL_CL1-complete, SEL_CL2,
\* SEL_CL2-complete, SEL_CL3, SEL_CL3-complete; a completion command is sent
\* only after the response of its select has been read and echoes the 5 bytes
\* of that response followed by 0x28.
C13_ExchangeOrder ==
    op = "get_uid"
    => LET s == NoPolls(trace)
       IN  /\ Len(cmds) <= 7
           /\ Len(rsp) <= Len(cmds)
           /\ Len(cmds) <= Len(rsp) + 1
           /\ Len(SelectSeq(s, LAMBDA ev : ev.e = "cmd")) = Len(cmds)
           /\ \A i \in 1..Len(s) :
                /\ i % 4 = 1 => (s[i].e = "cmd" /\ s[i].a > 0 /\ s[i].b = 0 /\ s[i].c = 1)
                /\ i % 4 = 2 => s[i] = Ev("wait", 0, 0, 0)
                /\ i % 4 = 3 => s[i] = Ev("resp", 1, 3, 0)
                /\ i % 4 = 0 => (s[i].e = "resp" /\ s[i].a = 0 /\ s[i].c = 1)
           /\ \A i \in 1..Len(cmds) :
                /\ cmds[i] = ExpectedCmd(i)
                /\ s[4 * i - 3].a = Len(cmds[i])

C13_Witness ==
    /\ GetUidOk /\ Len(cmds) = 7 /\ Len(NoPolls(trace)) = 28
    /\ cmds[7] = <<0, 4, 8, 151, 112, 170, 187, 204, 221, 238, 40>>

\* C14 (as claimed): a bus transaction that fails during a get_uid call (in
\* the command send, in the polling of the readiness wait or in the response
\* read) ends the call at once with that error: no further bus transaction
\* is made and the error is what the call returns.
C14_BusErrorEndsCall ==
    (op = "get_uid" /\ faults > 0) => (pc = "idle" /\ ret = -EBUSY)

\* a finished protocol_select call
ProtocolSelectRan == pc = "idle" /\ op = "protocol_select"

\* C15: protocol_select(p) with p other than ISO_14443A returns -EINVAL
\* without any bus transaction; protocol_select(ISO_14443A) sends the
\* protocol template with send length 7 and receive length 0, waits for
\* readiness, reads the response and returns 0 whatever the response is.
C15_ProtocolSelect ==
    /\ (ProtocolSelectRan /\ req # 2)
       => (ret = -EINVAL /\ trace = <<>> /\ cmds = <<>>)
    /\ (op = "protocol_select" /\ pc = "send")
       => /\ req = 2
          /\ snd_len = 7
          /\ rcv_len = 0
          /\ Prefix(snd_buffer, 7) = Prefix(protocol_msg, 7)
    /\ (ProtocolSelectRan /\ req = 2 /\ faults = 0)
       => LET s == NoPolls(trace)
          IN  /\ ret = 0
              /\ Len(s) = 4
              /\ s[1] = Ev("cmd", 7, 0, 1)
              /\ s[2] = Ev("wait", 0, 0, 0)
              /\ s[3] = Ev("resp", 1, 3, 0)
              /\ s[4].e = "resp" /\ s[4].a = 0 /\ s[4].c = 1
              /\ cmds = <<Prefix(protocol_msg, 7)>>
              /\ Len(rsp) = 1
    /\ (ProtocolSelectRan /\ Len(rsp) = 1) => ret = 0

C15_Witness ==
    /\ ProtocolSelectRan /\ req = 2 /\ ret = 0 /\ Len(rsp) = 1
    /\ trace[1] = Ev("cmd", 7, 0, 1)

Outcome(k) == <<rsp[k][1], rsp[k][2], rsp[k][3]>>

\* the outcome of probe k is one that step k - 1 accepts: (0,1,2) at step 0,
\* (0,1,1) at step 1, LOW = (0,1,1) or HIGH = (0,1,2) afterwards
Accepted(k) ==
    CASE k = 1 -> Outcome(k) = <<0, 1, 2>>
      [] k = 2 -> Outcome(k) = <<0, 1, 1>>
      [] OTHER -> Outcome(k) \in {<<0, 1, 1>>, <<0, 1, 2>>}

\* a calibration call that returned from step 7 with an accepted outcome
CalOk ==
    /\ pc = "idle" /\ op = "calibration" /\ Len(rsp) = 8
    /\ \A k \in 1..8 : Accepted(k)

\* the reference value after the outcomes of probes 1..k, by integer
\* arithmetic: 0 before the first probe, 0xFC after step 0, minus 0x80 after
\* step 1, then minus (LOW) or plus (HIGH) 0x40, 0x20, 0x10, 0x08, 0x04
RECURSIVE Replay(_)
Replay(k) ==
    IF k = 0 THEN 0
    ELSE IF k = 1 THEN 252
    ELSE IF k = 2 THEN Replay(1) - 128
    ELSE LET step == <<64, 32, 16, 8, 4>>[k - 2]
         IN  IF Outcome(k) = <<0, 1, 1>> THEN Replay(k - 1) - step
                                         ELSE Replay(k - 1) + step

\* C17: with accepted outcomes at every step, calibration returns the value
\* replayed from 0xFC (minus 0x80, then minus or plus 0x40 .. 0x04 at steps
\* 2-6, minus 4 if step 7 is LOW), and byte 14 of probe i + 1 carries the
\* value computed after step i; the HIGH-only sequence returns 0xF8.
C17_CalibrationArithmetic ==
    op = "calibration"
    => /\ \A i \in 1..Len(cmds) :
            (\A k \in 1..(i - 1) : Accepted(k)) => cmds[i][15] = Replay(i - 1)
       /\ CalOk
          => ret = Replay(7) - (IF Outcome(8) = <<0, 1, 1>> THEN 4 ELSE 0)
       /\ (CalOk /\ \A k \in 3..8 : Outcome(k) = <<0, 1, 2>>) => ret = 248
       /\ (CalOk /\ \A k \in 3..8 : Outcome(k) = <<0, 1, 1>>)
          => ret = 252 - 128 - 64 - 32 - 16 - 8 - 4 - 4

C17_Witness ==
    /\ CalOk /\ ret = 248
    /\ Len(cmds) = 8 /\ cmds[8][15] = 248 /\ cmds[2][15] = 252 /\ cmds[3][15] = 124

\* C18 (as claimed): every calibration call that returns from step 7 with an
\* accepted outcome returns an unsigned 8-bit value.
C18_ResultIsU8 == CalOk => ret \in 0..255

\* C19: calibration makes at most 8 probes (command send, wait, response
\* read) and exactly 8 on success; at the first step i whose outcome is not
\* accepted it returns -EIO after exactly i + 1 probes and sends nothing
\* further.
C19_ProbeCount ==
    op = "calibration"
    => LET s == NoPolls(trace)
       IN  /\ Len(cmds) <= 8
           /\ Len(rsp) <= Len(cmds)
           /\ Len(cmds) <= Len(rsp) + 1
           /\ Len(SelectSeq(s, LAMBDA ev : ev.e = "cmd")) = Len(cmds)
           /\ \A i \in 1..Len(s) :
                /\ i % 4 = 1 => s[i] = Ev("cmd", 17, 0, 1)
                /\ i % 4 = 2 => s[i] = Ev("wait", 0, 0, 0)
                /\ i % 4 = 3 => s[i] = Ev("resp", 1, 3, 0)
                /\ i % 4 = 0 => (s[i].e = "resp" /\ s[i].a = 0 /\ s[i].c = 1)
           /\ \A k \in 1..Len(rsp) :
                ~Accepted(k)
                => /\ k = Len(rsp)
                   /\ Len(cmds) = k
                   /\ Len(s) = 4 * k
                   /\ pc = "idle"
                   /\ ret = -EIO
           /\ CalOk => (Len(cmds) = 8 /\ Len(s) = 32)
           /\ (pc = "idle" /\ Len(rsp) < 8 /\ \A k \in 1..Len(rsp) : Accepted(k))
              => ret = -EBUSY

C19_Witness ==
    /\ pc = "idle" /\ op = "calibration" /\ ret = -EIO
    /\ Len(rsp) = 3 /\ Len(cmds) = 3 /\ ~Accepted(3) /\ Accepted(1) /\ Accepted(2)

\* the transactions of the initialization recorded so far that sent sl bytes
\* and read rl bytes
InitEvents(sl, rl) == Len(SelectSeq(trace, LAMBDA ev : ev = Ev("init", sl, rl, 1)))

\* C20: initialization makes at most 5 reset-and-echo attempts and stops at
\* the first whose echo byte is 0x55, returning 0 with current_mode =
\* POWER_UP (also on the 5th attempt); when none of the 5 matches it returns
\* -EIO with current_mode = UNINITIALIZED; a bus failure ends it at once
\* with that error.
C20_InitAttempts ==
    op = "init"
    => LET resets == InitEvents(1, 0)
           echoes == InitEvents(2, 0)
           reads  == InitEvents(1, 2)
       IN  /\ resets <= 5
           /\ echoes <= resets /\ reads <= echoes /\ resets <= reads + 1
           /\ (pc # "idle" /\ reads > 0) => rcv_buffer[1] # 85
           /\ (pc # "idle" /\ pc # "boot") => (faults = 0 /\ tries = 5 - reads)
           /\ (pc = "idle" /\ ret = 0)
              => /\ current_mode = POWER_UP
                 /\ rcv_buffer[1] = 85
                 /\ reads = resets /\ reads = 5 - tries /\ reads >= 1
                 /\ faults = 0
                 /\ trace[Len(trace)] = Ev("mode", POWER_UP, 0, 0)
           /\ (pc = "idle" /\ ret = -EIO)
              => /\ current_mode = UNINITIALIZED
                 /\ rcv_buffer[1] # 85
                 /\ reads = 5 /\ resets = 5 /\ tries = 0
                 /\ faults = 0
           /\ faults > 0
              => /\ pc = "idle"
                 /\ ret = -EBUSY
                 /\ current_mode = UNINITIALIZED
                 /\ IsSpi(trace[Len(trace)])
           /\ pc = "idle" => ret \in {0, -EIO, -EBUSY}

C20_Witness ==
    /\ op = "init" /\ pc = "idle" /\ ret = 0 /\ current_mode = POWER_UP
    /\ tries = 0 /\ InitEvents(1, 2) = 5 /\ rcv_buffer[1] = 85

\* C21: a Frame Transport call makes at most one bus-primitive call, chosen
\* by the two lengths: full duplex when both are > 0, write when only the
\* send length is, read when only the receive length is, none when both are
\* 0; in the 0/0 case it returns 0 and chip select ends deasserted iff the
\* release flag is set.  A failure of the primitive is what the call returns.
C21_TransportDispatch ==
    op = "transport"
    => /\ Len(trace) = 1
       /\ trace[1].a = snd_len /\ trace[1].b = rcv_len
       /\ trace[1].e = IF snd_len > 0 /\ rcv_len > 0 THEN "transceive"
                       ELSE IF snd_len > 0 THEN "write"
                       ELSE IF rcv_len > 0 THEN "read"
                       ELSE "none"
       /\ (snd_len = 0 /\ rcv_len = 0) => (ret = 0 /\ (cs <=> req = 0))
       /\ (snd_len > 0 \/ rcv_len > 0) => ret = trace[1].c
       /\ ret = 0 => (cs <=> req = 0)

C21_Witness ==
    /\ op = "transport" /\ pc = "idle" /\ snd_len = 0 /\ rcv_len = 0
    /\ req = 1 /\ ret = 0 /\ ~cs /\ trace[1] = Ev("none", 0, 0, -EBUSY)

\* the requested ready bit is set in status byte f (flags kept in req)
RequestedBit(f) ==
    \/ req \div 2 = 1 /\ Bit(f, 8)
    \/ req % 2 = 1 /\ Bit(f, 4)

\* C24: the polling strategy sends one poll command byte 0x03 (send length 1,
\* receive length 0), then repeats single-byte status reads without another
\* command; a read returns success iff the bus did not fail and the status
\* byte has bit 0x8 set with the read flag requested or bit 0x4 set with the
\* send flag requested; a read leaves the loop with an error iff the bus
\* failed; every other read is followed by another read, so with neither
\* flag requested no read returns success.
C24_PollingLoop ==
    [][(op = "polling" /\ op' = "polling")
       => /\ pc = "poll_cmd"
             => /\ snd_buffer[0] = 3 /\ snd_len = 1 /\ rcv_len = 0
                /\ trace = <<>> /\ Len(trace') = 1
                /\ \/ pc' = "poll_read" /\ faults' = faults
                   \/ pc' = "idle" /\ ret' # 0 /\ faults' # faults
          /\ pc = "poll_read"
             => /\ snd_len = 0 /\ rcv_len = 1
                /\ trace' = trace
                /\ (pc' = "idle" /\ ret' = 0)
                     <=> (faults' = faults /\ RequestedBit(rcv_buffer'[0]))
                /\ (pc' = "idle" /\ ret' # 0) <=> faults' # faults
                /\ (pc' = "poll_read" /\ polls' = polls + 1)
                     <=> (faults' = faults /\ ~RequestedBit(rcv_buffer'[0]))
                /\ req = 0 => ~(pc' = "idle" /\ ret' = 0)]_vars

C24_Witness ==
    /\ op = "polling" /\ pc = "idle" /\ ret = 0 /\ req = 1
    /\ polls >= 1 /\ rcv_buffer[0] = 4 /\ Len(trace) = 1

\* C28 as stated: at every Frame Transport call made by initialization, the
\* polling loop, the Response Reader or a public operation, at least one of
\* the two lengths has been written since the previous Frame Transport call.
C28_LengthsAlwaysReset == pc \in BusPcs => fresh

\* C28 amended: the lengths have been written since the previous Frame
\* Transport call at every call except the second and later status reads of
\* the polling loop, which run with both lengths as the previous read left
\* them (0 and 1).
C28_LengthsResetButPollRetry ==
    /\ pc \in BusPcs => (fresh <=> ~(pc = "poll_read" /\ polls > 0))
    /\ (pc = "poll_read" /\ polls > 0) => (snd_len = 0 /\ rcv_len = 1)

C28_Witness == pc = "poll_read" /\ polls > 0 /\ ~fresh /\ op = "select_mode"

\* C22: whenever a public operation has returned (no call is in progress),
\* chip select is deasserted: every Frame Transport call made with the
\* release flag set has released it by its return, whether or not the bus
\* exchange succeeded.
C22_ChipSelectReleasedAtReturn == pc = "idle" => ~cs

\* C27: mode_timestamp changes exactly when a mode transition succeeds:
\* every step that changes current_mode records the time of the step, and no
\* step changes cm_timestamp while current_mode keeps its value.
C27_TimestampIffModeChange ==
    [][/\ current_mode' # current_mode
          => (cm_timestamp' >= Uptime(now) /\ cm_timestamp' <= Uptime(now'))
       /\ cm_timestamp' # cm_timestamp => current_mode' # current_mode]_vars

\* the positions of a call inside rfid_cr95hf_wait_for_irq_out_low
SignalWaitPcs == {"irq_arm", "irq_take", "irq_disarm"}

\* C25 as stated: the signal-strategy wait returns immediately, without
\* arming and without touching the semaphore, exactly when the line reads
\* inactive at entry.
C25_ReturnsWhenInactive ==
    [][(cfg_irq_out /\ pc = "wait" /\ pc' # "wait")
       => ((pc' = "resp_hdr" /\ int_armed' = int_armed /\ sem' = sem)
             <=> ~irq_out)]_vars

\* C25 amended: the signal-strategy wait returns immediately, without arming
\* and without touching the semaphore, exactly when the line reads active at
\* entry; when it reads inactive the wait arms the detection, then blocks
\* until the semaphore holds a token and takes it, then disarms and returns.
C25_ReturnsWhenActive ==
    [][/\ (cfg_irq_out /\ pc = "wait" /\ pc' # "wait")
          => /\ int_armed' = int_armed /\ sem' = sem
             /\ pc' = "resp_hdr" <=> irq_out
             /\ pc' = "irq_arm" <=> ~irq_out
       /\ (pc = "irq_arm" /\ pc' # pc)
          => (int_armed' /\ sem' = sem /\ pc' = "irq_take")
       /\ (pc = "irq_take" /\ pc' # pc)
          => (sem > 0 /\ sem' = sem - 1 /\ int_armed' /\ pc' = "irq_disarm")
       /\ (pc = "irq_disarm" /\ pc' # pc)
          => (~int_armed' /\ sem' = sem /\ pc' = "resp_hdr")]_vars

C25_Witness == pc = "irq_disarm" /\ int_armed /\ sem = 0 /\ irq_out

\* C26: edge detection is enabled only inside a signal-strategy wait, between
\* the arming and the disarming: in every state in which the call is not
\* there (after initialization, after every return) it is disabled.
C26_ArmedOnlyInWait ==
    int_armed => (cfg_irq_out /\ pc \in {"irq_take", "irq_disarm"})

C26_Witness ==
    /\ pc = "idle" /\ op = "select_mode" /\ ret = 0 /\ cfg_irq_out
    /\ current_mode = READY /\ ~int_armed

\* C29: if the chip drives the readiness line active while a call is in the
\* readiness wait, the wait eventually returns.
C29_NoLostWakeup ==
    (cfg_irq_out /\ irq_out /\ pc \in ({"wait"} \cup SignalWaitPcs))
        ~> (pc \notin ({"wait"} \cup SignalWaitPcs))

C23_ResponseReader ==
    [][/\ (pc = "resp_hdr" /\ pc' # pc)
          => /\ snd_len = 1 /\ rcv_len = 3
             /\ trace' = Append(trace, Ev("resp", 1, 3, 0))
             /\ faults' = faults
                => /\ pc' = "resp_data" /\ cs'
                   /\ snd_len' = 0
                   /\ rcv_len' = Min(rcv_buffer'[2], CR95HF_RCV_BUF_SIZE)
             /\ faults' # faults => (pc' = "idle" /\ ret' # 0)
       /\ (pc = "resp_data" /\ pc' # pc)
          => /\ cs /\ snd_len = 0
             /\ rcv_len = Min(rcv_buffer[2], CR95HF_RCV_BUF_SIZE)
             /\ Len(trace') > Len(trace)
             /\ trace'[Len(trace) + 1] = Ev("resp", 0, rcv_len, 1)
             /\ faults' = faults
                => (~cs' /\ (op = "protocol_select" => (pc' = "idle" /\ ret' = 0)))
       /\ rcv_len <= CR95HF_RCV_BUF_SIZE /\ rcv_len' <= CR95HF_RCV_BUF_SIZE]_vars

C23_Witness ==
    /\ pc = "idle" /\ op = "protocol_select" /\ ret = 0 /\ ~cs
    /\ trace[Len(trace)] = Ev("resp", 0, 8, 1)
    /\ rsp = <<[i \in 1..5 |-> 255 - i]>>

\* the modes the driver records
EnteredModes == {UNINITIALIZED, POWER_UP, READY, TAG_DETECTOR}

\* C31: after any sequence of initialization and select_mode calls,
\* successful or failed, current_mode is one of UNINITIALIZED, POWER_UP,
\* READY, TAG_DETECTOR, and so is every mode recorded on the way: INVALID,
\* HIBERNATE, SLEEP and READER are never entered.
C31_ModesEntered ==
    /\ current_mode \in EnteredModes
    /\ \A i \in 1..Len(trace) : trace[i].e = "mode" => trace[i].a \in EnteredModes

C31_Witness ==
    /\ pc = "idle" /\ op = "select_mode" /\ req = SLEEP /\ ret = -EINVAL
    /\ current_mode = READY /\ trace[Len(trace)] = Ev("mode", READY, 0, 0)

\* the value step i computes from byte 14 = d and the outcome LOW or HIGH, by
\* integer arithmetic without reduction
ExactDac(i, d, low) ==
    IF i = 0 THEN 252
    ELSE IF i = 1 THEN d - 128
    ELSE LET step == <<64, 32, 16, 8, 4>>[i - 1]
         IN  IF low THEN d - step ELSE d + step

\* C32: byte 14 of the calibration command never wraps modulo 256: it is
\* 0x00 at probe 0, 0xFC at probe 1, 0x7C at probe 2 and within 0x00..0xF8
\* at probes 3-7, and the value each of steps 0-6 stores is the value of the
\* exact addition or subtraction, which lies in 0..255.
C32_NoWrap ==
    [][(op = "calibration" /\ pc = "resp_data" /\ stage' = stage + 1)
       => LET exact == ExactDac(stage, snd_buffer[14],
                                <<rcv_buffer'[0], rcv_buffer'[1], rcv_buffer'[2]>>
                                  = <<0, 1, 1>>)
          IN  /\ stage = 0 => snd_buffer[14] = 0
              /\ exact \in 0..255
              /\ snd_buffer'[14] = exact
              /\ stage' = 1 => snd_buffer'[14] = 252
              /\ stage' = 2 => snd_buffer'[14] = 124
              /\ stage' >= 3 => snd_buffer'[14] \in 0..248]_vars

C32_Witness ==
    /\ op = "calibration" /\ pc = "send" /\ stage = 7 /\ snd_buffer[14] = 0
    /\ Len(cmds) = 7 /\ cmds[4][15] = 60
====
